---- MODULE Spec2Model ----
(***************************************************************************)
(* ThreesModel.run_threes_model (src/model/models/threes.py): zone make    *)
(* rates by cluster, opponent defensive adjustment, bootstrap estimate of  *)
(* attempts per game and the Monte Carlo game loop.                        *)
(*                                                                         *)
(* Floats are modelled as exact rationals <<num, den>> in lowest terms     *)
(* with den > 0; NaN is <<0, 0>> and +inf is <<1, 0>>.  A data frame of    *)
(* labelled shots is modelled by its per-cluster counts <<made, missed>>,  *)
(* position k+1 of the sequence holding cluster k: groupby/value_counts    *)
(* read nothing else of it.                                                *)
(***************************************************************************)
EXTENDS Integers, Sequences, FiniteSets

\* ------------------------------------------------------------------ bounds

\* largest number of mixture components the modelled grid search may select
MaxK == 3
\* how many of the covariance types of the grid, in the order the grid lists
\* them, the modelled grid search may select
MaxCovarianceTypes == 1
\* largest number of games in the player's shot log
MaxGameLog == 2
\* largest bootstrap_samples argument
MaxBootstrap == 2
\* largest n_simulated_games argument
MaxGames == 2
\* largest attempt count a Poisson draw returns in the model
MaxAttempts == 2

\* ------------------------------------------------------- program constants

\* param_grid["n_components"] = range(GridLo, GridHi)
GridLo == 3
GridHi == 15
\* default of the n_components argument
DefaultNComponents == 5
\* folds of GridSearchCV's default cross-validation: fit needs as many shots
CvFolds == 5

\* param_grid["covariance_type"]
CovarianceTypes == <<"spherical", "tied", "diag", "full">>

\* ------------------------------------------------------------------ floats

NaN == <<0, 0>>
Inf == <<1, 0>>

Abs(n) == IF n < 0 THEN -n ELSE n

RECURSIVE Gcd(_, _)
Gcd(a, b) == IF b = 0 THEN a ELSE Gcd(b, a % b)

\* n / d as a float: d # 0 gives the fraction, 0/0 NaN, x/0 inf
Rat(n, d) ==
    IF d = 0 THEN (IF n = 0 THEN NaN ELSE Inf)
    ELSE LET s == IF d < 0 THEN -1 ELSE 1
             g == Gcd(Abs(n), Abs(d))
         IN  <<(s * n) \div g, (s * d) \div g>>

IsFinite(r) == r[2] # 0

Mul(a, b) ==
    IF IsFinite(a) /\ IsFinite(b) THEN Rat(a[1] * b[1], a[2] * b[2])
    ELSE IF a = NaN \/ b = NaN \/ a[1] = 0 \/ b[1] = 0 THEN NaN
    ELSE Inf

Add(a, b) ==
    IF IsFinite(a) /\ IsFinite(b) THEN Rat(a[1] * b[2] + b[1] * a[2], a[2] * b[2])
    ELSE IF a = NaN \/ b = NaN THEN NaN
    ELSE Inf

Div(a, b) ==
    IF a = NaN \/ b = NaN THEN NaN
    ELSE IF ~IsFinite(a) THEN (IF IsFinite(b) THEN Inf ELSE NaN)
    ELSE IF ~IsFinite(b) THEN Rat(0, 1)
    ELSE Rat(a[1] * b[2], a[2] * b[1])

\* a <= b on finite values
Leq(a, b) == a[1] * b[2] <= b[1] * a[2]

\* what np.random.binomial(1, p) accepts: 0 <= p <= 1 and p not NaN
ValidProbability(p) == IsFinite(p) /\ Leq(Rat(0, 1), p) /\ Leq(p, Rat(1, 1))

RECURSIVE SumSeq(_)
SumSeq(s) == IF s = <<>> THEN 0 ELSE Head(s) + SumSeq(Tail(s))

\* ----------------------------------------------- per-cluster make rates

\* rows of one cluster of groupby('cluster')[flag].value_counts(normalize=True):
\* one row per outcome that occurs in the cluster, the more frequent outcome
\* first; made_first orders the two rows of a tie
ClusterRows(k, c, made_first) ==
    LET made == c[1]
        missed == c[2]
        mk == [cluster |-> k, shot_made |-> 1, fg_percent |-> Rat(made, made + missed)]
        ms == [cluster |-> k, shot_made |-> 0, fg_percent |-> Rat(missed, made + missed)]
    IN  IF made + missed = 0 THEN <<>>
        ELSE IF made = 0 THEN <<ms>>
        ELSE IF missed = 0 THEN <<mk>>
        ELSE IF made > missed \/ (made = missed /\ made_first) THEN <<mk, ms>>
        ELSE <<ms, mk>>

\* the rows of the first n clusters, by ascending cluster
RECURSIVE ValueCounts(_, _, _)
ValueCounts(counts, made_first, n) ==
    IF n = 0 THEN <<>>
    ELSE ValueCounts(counts, made_first, n - 1)
             \o ClusterRows(n - 1, counts[n], made_first)

\* reset_index() numbers the rows 0, 1, ...; .loc[flag == 1] keeps the rows of
\* made shots under the labels they had; ['fg_percent'] keeps the rate alone
\* (the cluster a row came from is recorded for reference only: the Series
\* the code builds does not hold it)
FgPercentByCluster(counts, made_first) ==
    LET rows == ValueCounts(counts, made_first, Len(counts))
        numbered == [i \in 1..Len(rows) |->
                        [label |-> i - 1, cluster |-> rows[i].cluster,
                         shot_made |-> rows[i].shot_made, value |-> rows[i].fg_percent]]
        Made(r) == r.shot_made = 1
        kept == SelectSeq(numbered, Made)
    IN  [i \in 1..Len(kept) |->
            [label |-> kept[i].label, cluster |-> kept[i].cluster, value |-> kept[i].value]]

Labels(series) == {series[i].label : i \in 1..Len(series)}

At(series, l) == series[CHOOSE i \in 1..Len(series) : series[i].label = l]

\* the labels of a set in ascending order
RECURSIVE SortedLabels(_)
SortedLabels(S) ==
    IF S = {} THEN <<>>
    ELSE LET m == CHOOSE x \in S : \A y \in S : x <= y
         IN  <<m>> \o SortedLabels(S \ {m})

\* Series / Series: the operands are aligned on the union of their labels, a
\* label only one of them has gives NaN
SeriesDivide(num, den) ==
    LET ls == SortedLabels(Labels(num) \cup Labels(den))
    IN  [i \in 1..Len(ls) |->
            LET l == ls[i]
                hasN == l \in Labels(num)
                hasD == l \in Labels(den)
            IN  [label |-> l,
                 value |-> IF hasN /\ hasD THEN Div(At(num, l).value, At(den, l).value)
                           ELSE NaN,
                 opponent_cluster |-> IF hasN THEN At(num, l).cluster ELSE -1,
                 league_cluster |-> IF hasD THEN At(den, l).cluster ELSE -1]]

Values(series) == [i \in 1..Len(series) |-> series[i].value]

\* ndarray * Series multiplies position by position and keeps the index of
\* the Series: the lengths must be equal, or the array hold one entry (then
\* used at every position)
CanMultiply(values, series) ==
    Len(values) = Len(series) \/ Len(values) = 1

Multiply(values, series) ==
    [i \in 1..Len(series) |->
        Mul(values[IF Len(values) = 1 THEN 1 ELSE i], series[i].value)]

\* np.dot(v, proba.T) needs one entry of v per column of predict_proba
CanDot(v, k) == Len(v) = k

RECURSIVE DotUpTo(_, _, _)
DotUpTo(v, w, n) ==
    IF n = 0 THEN Rat(0, 1) ELSE Add(DotUpTo(v, w, n - 1), Mul(v[n], w[n]))

Dot(v, w) == DotUpTo(v, w, Len(v))

\* ------------------------------------------------------------------- state

VARIABLES
    pc,                   \* the statement run_threes_model is at
    error,                \* the exception that ended the call, "" if none
    n_components,         \* the argument, then the grid search's choice
    bootstrap_samples,
    n_simulated_games,
    ties_made_first,      \* how value_counts orders the two rows of a tie
    model,                \* the fitted GMM: n_components, covariance_type
    cluster_df,           \* the player's shots per cluster
    league_df,            \* the league's shots per cluster
    opponent_df,          \* the shots against the opponent per cluster
    fga_per_game_data,    \* the player's attempts per game
    fg_percent_by_cluster,
    league_fg_percent_by_cluster,
    opponent_fg_percent_by_cluster,
    def_adjustment,
    fga_per_game_est_mean,
    fga_per_game_est_std, \* the square of the standard deviation
    fg3m_s,               \* makes per simulated game
    fga_s,                \* the fga_i of each game of fg3m_s
    fga_i,
    proba,                \* model.predict_proba(sampled_shot_locs), a row per shot
    weighted_fg_percent,
    np_random_state,      \* variates the global NumPy generator has produced
    result                \* the returned array

vars == <<pc, error, n_components, bootstrap_samples,
          n_simulated_games, ties_made_first, model, cluster_df, league_df,
          opponent_df, fga_per_game_data, fg_percent_by_cluster,
          league_fg_percent_by_cluster, opponent_fg_percent_by_cluster,
          def_adjustment, fga_per_game_est_mean, fga_per_game_est_std, fg3m_s,
          fga_s, fga_i, proba, weighted_fg_percent, np_random_state, result>>

args == <<bootstrap_samples, n_simulated_games, ties_made_first>>
data == <<model, cluster_df, league_df, opponent_df, fga_per_game_data>>
tables == <<fg_percent_by_cluster, league_fg_percent_by_cluster,
            opponent_fg_percent_by_cluster, def_adjustment>>
estimate == <<fga_per_game_est_mean, fga_per_game_est_std>>
game == <<fg3m_s, fga_s, fga_i, proba, weighted_fg_percent, np_random_state>>

Unfitted == [n_components |-> 0, covariance_type |-> "none"]

Init ==
    /\ pc = "fetch"
    /\ error = ""
    /\ n_components \in {GridLo, DefaultNComponents}
    /\ bootstrap_samples \in 1..MaxBootstrap
    /\ n_simulated_games \in 0..MaxGames
    /\ ties_made_first \in BOOLEAN
    /\ model = Unfitted
    /\ cluster_df = <<>>
    /\ league_df = <<>>
    /\ opponent_df = <<>>
    /\ fga_per_game_data = <<>>
    /\ fg_percent_by_cluster = <<>>
    /\ league_fg_percent_by_cluster = <<>>
    /\ opponent_fg_percent_by_cluster = <<>>
    /\ def_adjustment = <<>>
    /\ fga_per_game_est_mean = NaN
    /\ fga_per_game_est_std = NaN
    /\ fg3m_s = <<>>
    /\ fga_s = <<>>
    /\ fga_i = 0
    /\ proba = <<>>
    /\ weighted_fg_percent = <<>>
    /\ np_random_state = 0
    /\ result = <<>>

\* ------------------------------------------------ lines 40-73: data, zones

\* shots of one cluster as <<made, missed>>
CellCounts == {0, 1}
ZoneCounts == CellCounts \X CellCounts

\* the modelled data sets differ in cluster 0; every other cluster holds
\* Settled shots of the player and against the opponent and no other shot
Settled == <<2, 1>>
Empty == <<0, 0>>

Frame(k, zone0, rest) == [i \in 1..k |-> IF i = 1 THEN zone0 ELSE rest]

Plus(a, b) == [i \in 1..Len(a) |-> <<a[i][1] + b[i][1], a[i][2] + b[i][2]>>]

Shots(counts) == SumSeq([i \in 1..Len(counts) |-> counts[i][1] + counts[i][2]])

\* groupby('GAME_ID')[...].count(): a positive count per game, the counts
\* adding up to the player's shots (listed in ascending order; the resampling
\* does not depend on the order)
GameLogs(shots) ==
    {h \in UNION {[1..g -> 1..shots] : g \in 1..MaxGameLog} :
        /\ SumSeq(h) = shots
        /\ \A i \in 1..(Len(h) - 1) : h[i] <= h[i + 1]}

\* the n_components and the covariance types the grid search may select
GridKs == {k \in GridLo..(GridHi - 1) : k <= MaxK}
GridCovs == {CovarianceTypes[i] : i \in {j \in 1..Len(CovarianceTypes) : j <= MaxCovarianceTypes}}

FetchAndFit ==
    /\ pc = "fetch"
    /\ \E k \in GridKs, cov \in GridCovs,
          player0 \in ZoneCounts, opp0 \in ZoneCounts, other0 \in ZoneCounts :
          LET player == Frame(k, player0, Settled)
              opponent == Frame(k, opp0, Settled)
              others == Frame(k, other0, Empty)
          IN  /\ Shots(player) >= CvFolds
              /\ \E h \in GameLogs(Shots(player)) : fga_per_game_data' = h
              /\ n_components' = k
              /\ model' = [n_components |-> k, covariance_type |-> cov]
              /\ cluster_df' = player
              /\ opponent_df' = opponent
              /\ league_df' = Plus(opponent, others)
    /\ pc' = "player_rates"
    /\ UNCHANGED <<error, args, tables, estimate, game, result>>

\* ------------------------------------------- lines 75-94: rates, adjustment

PlayerRates ==
    /\ pc = "player_rates"
    /\ fg_percent_by_cluster' = FgPercentByCluster(cluster_df, ties_made_first)
    /\ pc' = "league_rates"
    /\ UNCHANGED <<error, args, n_components, data, league_fg_percent_by_cluster,
                   opponent_fg_percent_by_cluster, def_adjustment, estimate, game,
                   result>>

LeagueRates ==
    /\ pc = "league_rates"
    /\ league_fg_percent_by_cluster' = FgPercentByCluster(league_df, ties_made_first)
    /\ pc' = "opponent_rates"
    /\ UNCHANGED <<error, args, n_components, data, fg_percent_by_cluster,
                   opponent_fg_percent_by_cluster, def_adjustment, estimate, game,
                   result>>

OpponentRates ==
    /\ pc = "opponent_rates"
    /\ opponent_fg_percent_by_cluster' = FgPercentByCluster(opponent_df, ties_made_first)
    /\ pc' = "adjustment"
    /\ UNCHANGED <<error, args, n_components, data, fg_percent_by_cluster,
                   league_fg_percent_by_cluster, def_adjustment, estimate, game,
                   result>>

DefAdjustment ==
    /\ pc = "adjustment"
    /\ def_adjustment' = SeriesDivide(opponent_fg_percent_by_cluster,
                                      league_fg_percent_by_cluster)
    /\ pc' = "bootstrap"
    /\ UNCHANGED <<error, args, n_components, data, fg_percent_by_cluster,
                   league_fg_percent_by_cluster, opponent_fg_percent_by_cluster,
                   estimate, game, result>>

\* --------------------------------------------- lines 96-99: the bootstrap

Sub(a, b) == Add(a, Mul(Rat(-1, 1), b))

RECURSIVE SumFloats(_)
SumFloats(xs) == IF xs = <<>> THEN Rat(0, 1) ELSE Add(Head(xs), SumFloats(Tail(xs)))

\* np.mean
Mean(xs) == Div(SumFloats(xs), Rat(Len(xs), 1))

\* np.std squared: the mean of the squared distances from the mean
StdSquared(xs) ==
    LET m == Mean(xs)
    IN  Mean([i \in 1..Len(xs) |-> Mul(Sub(xs[i], m), Sub(xs[i], m))])

\* the mean of the positions drawn instead of the counts at them
ResampleMeanOfPositions(h, idx) == Rat(SumSeq([i \in 1..Len(h) |-> idx[i]]), Len(h))

\* np.random.choice(h, size=len(h), replace=True).mean(), idx the positions drawn
ResampleMean(h, idx) == Rat(SumSeq([i \in 1..Len(h) |-> h[idx[i]]]), Len(h))

ResampleMeans(h) == {ResampleMean(h, idx) : idx \in [1..Len(h) -> 1..Len(h)]}

\* the lists of resample means line 97 may build, in ascending order: np.mean
\* and np.std do not depend on the order of the list
FgaPerGameEsts(h, n) ==
    {est \in [1..n -> ResampleMeans(h)] :
        \A i \in 1..(n - 1) : Leq(est[i], est[i + 1])}

Bootstrap ==
    /\ pc = "bootstrap"
    /\ \E fga_per_game_est \in FgaPerGameEsts(fga_per_game_data, bootstrap_samples) :
          /\ fga_per_game_est_mean' = Mean(fga_per_game_est)
          /\ fga_per_game_est_std' = StdSquared(fga_per_game_est)
    /\ np_random_state' = np_random_state + bootstrap_samples * Len(fga_per_game_data)
    /\ pc' = "simulate"
    /\ UNCHANGED <<error, args, n_components, data, tables, fg3m_s, fga_s, fga_i,
                   proba, weighted_fg_percent, result>>

\* ------------------------------------------- lines 101-134: the game loop

RateError == "ValueError: lam < 0"
ShapeError == "ValueError: shapes do not fit"
ProbabilityError == "ValueError: p < 0, p > 1 or p is NaN"

\* values np.random.normal(mean, std) may return: mean itself when std is 0,
\* any real otherwise (a sample of them around 0)
NormalDraws(mean, std_squared) ==
    IF std_squared = Rat(0, 1) THEN {mean}
    ELSE {Rat(i, 1) : i \in (-MaxAttempts)..MaxAttempts}

ValidRate(lam) == Leq(Rat(0, 1), lam)

\* values np.random.poisson(lam) may return for a valid lam
PoissonDraws(lam) == IF lam = Rat(0, 1) THEN {0} ELSE 0..MaxAttempts

\* the attempt counts line 106 may draw; -1 stands for the draw raising
AttemptDraws ==
    UNION {IF ValidRate(lam) THEN PoissonDraws(lam) ELSE {-1} :
              lam \in NormalDraws(fga_per_game_est_mean, fga_per_game_est_std)}

\* rows model.predict_proba may return for a sampled location: the weight of
\* the shot split between clusters 0 and 1 in halves, nothing elsewhere
ProbaRows(k) ==
    {[j \in 1..k |-> IF j = 1 THEN Rat(h, 2) ELSE IF j = 2 THEN Rat(2 - h, 2) ELSE Rat(0, 1)] :
        h \in 0..2}

\* fg_percent_by_cluster.values * def_adjustment
AdjustedRates == Multiply(Values(fg_percent_by_cluster), def_adjustment)

\* np.dot(adjusted, rows.T): one effective probability per shot
WeightedFgPercent(adjusted, rows) == [i \in 1..Len(rows) |-> Dot(adjusted, rows[i])]

ShapesFit ==
    /\ CanMultiply(Values(fg_percent_by_cluster), def_adjustment)
    /\ CanDot(AdjustedRates, model.n_components)

\* outcomes np.random.binomial(1, p) may return
BinomialDraws(p) ==
    IF p = Rat(0, 1) THEN {0} ELSE IF p = Rat(1, 1) THEN {1} ELSE {0, 1}

\* the sum counting the call np.vectorize makes to find the output type too
MadeCountWithProbe(fgm_i) == SumSeq(fgm_i) + fgm_i[1]

\* fgm_i.sum()
MadeCount(fgm_i) == SumSeq(fgm_i)

\* variates np.vectorize(np.random.binomial) draws: it calls the function on
\* the first shot once more to find the output type; bad is the first shot
\* whose probability is refused (0 if none)
BinomialCalls(n, bad) == IF bad = 1 THEN 0 ELSE IF bad = 0 THEN n + 1 ELSE bad

InLoop == pc = "simulate" /\ Len(fg3m_s) < n_simulated_games

\* np.random.normal returns a negative rate and np.random.poisson raises
GameRateError ==
    /\ InLoop
    /\ -1 \in AttemptDraws
    /\ np_random_state' = np_random_state + 1
    /\ error' = RateError
    /\ pc' = "raised"
    /\ UNCHANGED <<args, n_components, data, tables, estimate, fg3m_s, fga_s,
                   fga_i, proba, weighted_fg_percent, result>>

\* the game of 0 attempts with the drawn rate bound to the name of the mean
GameNoAttemptsKeepsRate ==
    /\ InLoop
    /\ \E lam \in NormalDraws(fga_per_game_est_mean, fga_per_game_est_std) :
          /\ ValidRate(lam)
          /\ 0 \in PoissonDraws(lam)
          /\ fga_per_game_est_mean' = lam
    /\ fga_i' = 0
    /\ fg3m_s' = Append(fg3m_s, 0)
    /\ fga_s' = Append(fga_s, 0)
    /\ np_random_state' = np_random_state + 2
    /\ UNCHANGED <<pc, error, args, n_components, data, tables, fga_per_game_est_std,
                   proba, weighted_fg_percent, result>>

\* fga_i == 0: the game counts 0 makes
GameNoAttempts ==
    /\ InLoop
    /\ 0 \in AttemptDraws
    /\ fga_i' = 0
    /\ fg3m_s' = Append(fg3m_s, 0)
    /\ fga_s' = Append(fga_s, 0)
    /\ np_random_state' = np_random_state + 2
    /\ UNCHANGED <<pc, error, args, n_components, data, tables, estimate, proba,
                   weighted_fg_percent, result>>

\* the lengths of the rates, the adjustment and the rows of predict_proba differ
GameShapeError ==
    /\ InLoop
    /\ ~ShapesFit
    /\ \E n \in AttemptDraws \ {-1, 0} : fga_i' = n
    /\ np_random_state' = np_random_state + 2
    /\ error' = ShapeError
    /\ pc' = "raised"
    /\ UNCHANGED <<args, n_components, data, tables, estimate, fg3m_s, fga_s,
                   proba, weighted_fg_percent, result>>

\* np.random.binomial refuses the effective probability of a shot
GameProbabilityError ==
    /\ InLoop
    /\ ShapesFit
    /\ LET adjusted == AdjustedRates
       IN  \E n \in AttemptDraws \ {-1, 0} :
           \E rows \in [1..n -> ProbaRows(model.n_components)] :
              LET w == WeightedFgPercent(adjusted, rows)
                  refused == {i \in 1..n : ~ValidProbability(w[i])}
                  bad == CHOOSE i \in refused : \A j \in refused : i <= j
              IN  /\ refused # {}
                  /\ fga_i' = n
                  /\ proba' = rows
                  /\ weighted_fg_percent' = w
                  /\ np_random_state' = np_random_state + 2 + BinomialCalls(n, bad)
    /\ error' = ProbabilityError
    /\ pc' = "raised"
    /\ UNCHANGED <<args, n_components, data, tables, estimate, fg3m_s, fga_s,
                   result>>

\* every shot is drawn and the makes of the game are appended
GameMakes ==
    /\ InLoop
    /\ ShapesFit
    /\ LET adjusted == AdjustedRates
       IN  \E n \in AttemptDraws \ {-1, 0} :
           \E rows \in [1..n -> ProbaRows(model.n_components)] :
              LET w == WeightedFgPercent(adjusted, rows)
              IN  /\ \A i \in 1..n : ValidProbability(w[i])
                  /\ \E fgm_i \in [1..n -> {0, 1}] :
                        /\ \A i \in 1..n : fgm_i[i] \in BinomialDraws(w[i])
                        /\ fg3m_s' = Append(fg3m_s, MadeCount(fgm_i))
                  /\ fga_i' = n
                  /\ fga_s' = Append(fga_s, n)
                  /\ proba' = rows
                  /\ weighted_fg_percent' = w
                  /\ np_random_state' = np_random_state + 2 + BinomialCalls(n, 0)
    /\ UNCHANGED <<pc, error, args, n_components, data, tables, estimate, result>>

\* the loop is over: return np.array(fg3m_s)
Return ==
    /\ pc = "simulate"
    /\ Len(fg3m_s) = n_simulated_games
    /\ result' = fg3m_s
    /\ pc' = "returned"
    /\ UNCHANGED <<error, args, n_components, data, tables, estimate, game>>

Next ==
    \/ FetchAndFit
    \/ PlayerRates
    \/ LeagueRates
    \/ OpponentRates
    \/ DefAdjustment
    \/ Bootstrap
    \/ GameRateError
    \/ GameNoAttempts
    \/ GameShapeError
    \/ GameProbabilityError
    \/ GameMakes
    \/ Return

Spec == Init /\ [][Next]_vars

\* the call up to the estimate of the attempts per game (lines 40-99)
NextEstimate ==
    \/ FetchAndFit
    \/ PlayerRates
    \/ LeagueRates
    \/ OpponentRates
    \/ DefAdjustment
    \/ Bootstrap

SpecEstimate == Init /\ [][NextEstimate]_vars

\* ------------------------------------------------------------------ claims

K == model.n_components

RatesDone == pc \in {"adjustment", "bootstrap", "simulate", "returned", "raised"}
AdjustmentDone == pc \in {"bootstrap", "simulate", "returned", "raised"}
EstimateDone == pc \in {"simulate", "returned", "raised"}

\* the make rate of a cluster holding c = <<made, missed>>: undefined without shots
ZoneRate(c) == Rat(c[1], c[1] + c[2])

\* C1: the returned sequence has one element per requested game (none for 0
\* games), every element is a count between 0 and the attempts drawn for its
\* game, and a game of 0 attempts counts 0.
C1_ResultPerGame ==
    /\ Len(fg3m_s) <= n_simulated_games
    /\ Len(fga_s) = Len(fg3m_s)
    /\ \A i \in 1..Len(fg3m_s) : fg3m_s[i] \in 0..fga_s[i]
    /\ pc = "returned" => result = fg3m_s /\ Len(result) = n_simulated_games

C1_Witness ==
    /\ pc = "returned"
    /\ Len(result) = 2
    /\ \E i \in 1..2 : fga_s[i] = 0 /\ result[i] = 0
    /\ \E i \in 1..2 : fga_s[i] = 2 /\ result[i] = 1

HasZoneRates(table, counts) ==
    \A k \in 0..(Len(counts) - 1) :
        \E i \in 1..Len(table) :
            table[i].cluster = k /\ table[i].value = ZoneRate(counts[k + 1])

\* C2: in each of the three rate tables a cluster with shots has the numeric
\* rate made / total (0.0 when nothing was made), and a cluster without shots
\* has the undefined marker.
C2_ZoneRates ==
    RatesDone =>
        /\ HasZoneRates(fg_percent_by_cluster, cluster_df)
        /\ HasZoneRates(league_fg_percent_by_cluster, league_df)
        /\ HasZoneRates(opponent_fg_percent_by_cluster, opponent_df)

Adjustment(k) ==
    IF ZoneRate(league_df[k + 1]) = Rat(0, 1) THEN NaN
    ELSE Div(ZoneRate(opponent_df[k + 1]), ZoneRate(league_df[k + 1]))

\* C3: entry k of the adjustment is the opponent's rate of cluster k divided
\* by the league's rate of cluster k, undefined where the league's rate is
\* undefined or zero.
C3_AdjustmentPerZone ==
    AdjustmentDone =>
        /\ Len(def_adjustment) = K
        /\ \A k \in 0..(K - 1) : def_adjustment[k + 1].value = Adjustment(k)

\* C4: every effective probability handed to the Bernoulli draw lies in [0,1].
C4_ProbabilityInRange ==
    \A i \in 1..Len(weighted_fg_percent) :
        IsFinite(weighted_fg_percent[i]) => ValidProbability(weighted_fg_percent[i])

FallbackRates ==
    [j \in 1..Len(def_adjustment) |->
        IF def_adjustment[j].value = NaN THEN fg_percent_by_cluster[j].value
        ELSE Mul(fg_percent_by_cluster[j].value, def_adjustment[j].value)]

OnePerZone(table) ==
    /\ Len(table) = K
    /\ \A i \in 1..Len(table) : table[i].label = i - 1 /\ table[i].cluster = i - 1

\* C6: each rate table and the adjustment hold exactly one entry per cluster
\* of the fitted model, entry k keyed k and belonging to cluster k, so the
\* vector multiplied with a row of predict_proba has K entries.
C6_TablesCoverZones ==
    AdjustmentDone =>
        /\ OnePerZone(fg_percent_by_cluster)
        /\ OnePerZone(league_fg_percent_by_cluster)
        /\ OnePerZone(opponent_fg_percent_by_cluster)
        /\ Len(def_adjustment) = K
        /\ \A i \in 1..Len(def_adjustment) :
              /\ def_adjustment[i].label = i - 1
              /\ def_adjustment[i].opponent_cluster = i - 1
              /\ def_adjustment[i].league_cluster = i - 1

\* C7: the fitted model has as many components as the caller's n_components.
C7_ComponentsAsRequested ==
    [][pc = "fetch" /\ pc' # "fetch" => model'.n_components = n_components]_vars

ConstantHistory ==
    \A i \in 1..Len(fga_per_game_data) : fga_per_game_data[i] = fga_per_game_data[1]

\* C8: for an attempt history of one repeated count c the estimated mean is
\* exactly c and the estimated standard deviation exactly 0.
C8_ConstantHistory ==
    (EstimateDone /\ ConstantHistory) =>
        /\ fga_per_game_est_mean = Rat(fga_per_game_data[1], 1)
        /\ fga_per_game_est_std = Rat(0, 1)

C8_Witness ==
    /\ EstimateDone
    /\ Len(fga_per_game_data) = 2
    /\ ConstantHistory
    /\ bootstrap_samples = 2

GameFrame ==
    /\ UNCHANGED <<args, n_components, data, tables, estimate, result>>
    /\ \/ fg3m_s' = fg3m_s
       \/ \E m \in 0..MaxAttempts : fg3m_s' = Append(fg3m_s, m)

\* C9 (as amended): a game appends one element to the result sequence,
\* overwrites the locals of the loop body and advances the global NumPy
\* generator; the fitted model, the rate tables, the adjustment, the
\* estimated mean and standard deviation and the arguments stay as they were.
C9_GameChangesResultAndGenerator == [][InLoop => GameFrame]_vars

C9_Witness ==
    /\ pc = "simulate"
    /\ Len(fg3m_s) = 2
    /\ fg3m_s[1] # fg3m_s[2]
    /\ np_random_state > 0

\* C9 (as claimed): a game changes nothing but the result sequence.
C9_GameChangesResultOnly ==
    [][InLoop => GameFrame /\ np_random_state' = np_random_state]_vars

\* C10: the rate drawn from the normal distribution is never refused by the
\* Poisson draw, so the loop does not end before the last game.
C10_RateAlwaysValid == ~(pc = "raised" /\ error = RateError)

====
